---------------------------- MODULE Spec2Model ----------------------------
(***************************************************************************)
(* A model of lead_finder.py: main() and run_pipeline() as a state machine *)
(* (search, deduplicate, coarse filter, detail fetch, email scrape,        *)
(* classify, assemble, write CSV), with the helpers they call as           *)
(* operators.                                                              *)
(*                                                                         *)
(* Representation of Python values:                                        *)
(*  - a URL / href string is the sequence of its lexemes, e.g.             *)
(*    "https://www.facebook.com:443/x" is                                  *)
(*    <<"https", ":", "//", "www.facebook.com", ":", "443", "/", "x">>;    *)
(*    the empty string is <<>>                                             *)
(*  - None / an absent dict key is a sentinel of the field's type          *)
(*  - ratings are in tenths (4.6 is 46)                                    *)
(*  - an email address is a sequence of character codes, compared as       *)
(*    Python compares str (lexicographically, a proper prefix first)       *)
(*  - an HTML text is what the two regular expressions of the scraper find *)
(*    in it: the set of email matches and the list of href values          *)
(***************************************************************************)
EXTENDS Integers, Sequences, FiniteSets, TLC

VARIABLES
    pc,             \* position in main() / run_pipeline()
    args,           \* the parsed configuration (argparse namespace + env)
    places,         \* text_search / radius_search: results
    next_token,     \* text_search / radius_search: next_token
    page_i,         \* text_search / radius_search: iterations of the for loop begun
    searchLog,      \* history: per search request, the pageToken sent and the answer
    by_id,          \* run_pipeline: the dict, as its items() in insertion order
    idx,            \* run_pipeline: position of the for loop in by_id.items()
    d,              \* run_pipeline: the detail response of the current place
    html,           \* extract_email_from_website: homepage html
    cands,          \* extract_email_from_website: find_candidate_pages(...) being iterated
    ci,             \* extract_email_from_website: position in cands
    email,          \* run_pipeline: email
    email_source,   \* run_pipeline: email_source
    is_lead,        \* run_pipeline: is_lead
    reason,         \* run_pipeline: reason
    leads,          \* run_pipeline: leads
    leadOrigin,     \* history: for each lead, the by_id key it was created for
    detailLog,      \* history: place ids of the detail requests sent
    fetchLog,       \* history: per fetch_html call for the current place, url and emails found
    csv,            \* the output file: whether it was opened, and the rows written
    exc             \* the exception that ended the run, or "none"

vars == <<pc, args, places, next_token, page_i, searchLog, by_id, idx, d, html,
          cands, ci, email, email_source, is_lead, reason, leads, leadOrigin,
          detailLog, fetchLog, csv, exc>>

(***************************************************************************)
(* Sentinels for None / absent.                                            *)
(***************************************************************************)
NoneStr == "<None>"
NoneUrl == <<"<None>">>
NoneNum == -1

IsNoneUrl(u) == u = NoneUrl

(***************************************************************************)
(* Sequence helpers.                                                       *)
(***************************************************************************)
Range(s) == {s[i] : i \in 1..Len(s)}

Min(a, b) == IF a <= b THEN a ELSE b

\* s.find(x) over lexemes: the least index holding a member of S, 0 if none
FindFirst(s, S) ==
    IF \E i \in 1..Len(s) : s[i] \in S
    THEN CHOOSE i \in 1..Len(s) : s[i] \in S /\ \A j \in 1..(i-1) : s[j] \notin S
    ELSE 0

(***************************************************************************)
(* str.lower() on a lexeme: the lexemes of the model that hold upper-case  *)
(* letters, each with its lower-case form.                                 *)
(***************************************************************************)
LowerTok(t) ==
    CASE t = "HTTPS" -> "https"
      [] t = "WWW.Facebook.COM" -> "www.facebook.com"
      [] t = "Yelp.com" -> "yelp.com"
      [] t = "Contact" -> "contact"
      [] t = "User" -> "user"
      [] OTHER -> t

Lower(s) == [i \in 1..Len(s) |-> LowerTok(s[i])]

(***************************************************************************)
(* urllib.parse over lexemes.  Every lexeme that is not a delimiter is a   *)
(* word of letters, digits, "+", "-" and "."; the words of DigitToks start *)
(* with a digit, all others with a letter.  The model holds no "." or ".." *)
(* path segment, no ";" parameters and no IPv6 literal.                    *)
(***************************************************************************)
Delims == {":", "//", "/", "?", "#", "@", "[", "]"}
DigitToks == {"443", "8080"}
UsesRelative == {<<>>, <<"http">>, <<"https">>}
UsesNetloc == {<<>>, <<"http">>, <<"https">>}

\* urlsplit: the url starts with a scheme ("i > 0 and url[0].isalpha()" and the
\* loop over url[:i], i = url.find(':'))
HasScheme(u) ==
    LET i == FindFirst(u, {":"})
    IN  /\ i > 1
        /\ u[1] \notin Delims /\ u[1] \notin DigitToks
        /\ \A k \in 1..(i-1) : u[k] \notin Delims

\* urlsplit: url[:i].lower(), or the default scheme
SchemeOf(u, default) ==
    IF HasScheme(u) THEN Lower(SubSeq(u, 1, FindFirst(u, {":"}) - 1)) ELSE default

\* urlsplit: url[i+1:]
AfterScheme(u) ==
    IF HasScheme(u) THEN SubSeq(u, FindFirst(u, {":"}) + 1, Len(u)) ELSE u

\* urlsplit: _splitnetloc(url, 2)[0] when url[:2] == '//'
NetlocOf(r1) ==
    IF Len(r1) >= 1 /\ r1[1] = "//"
    THEN LET j == FindFirst(Tail(r1), {"/", "?", "#"})
         IN  IF j = 0 THEN Tail(r1) ELSE SubSeq(Tail(r1), 1, j - 1)
    ELSE <<>>

\* urlsplit: _splitnetloc(url, 2)[1] when url[:2] == '//'
AfterNetloc(r1) ==
    IF Len(r1) >= 1 /\ r1[1] = "//"
    THEN LET j == FindFirst(Tail(r1), {"/", "?", "#"})
         IN  IF j = 0 THEN <<>> ELSE SubSeq(Tail(r1), j, Len(r1) - 1)
    ELSE r1

\* urlsplit: the path, and "?query#fragment"
PathOf(r2) ==
    IF FindFirst(r2, {"?", "#"}) = 0 THEN r2
    ELSE SubSeq(r2, 1, FindFirst(r2, {"?", "#"}) - 1)

QueryFragmentOf(r2) ==
    IF FindFirst(r2, {"?", "#"}) = 0 THEN <<>>
    ELSE SubSeq(r2, FindFirst(r2, {"?", "#"}), Len(r2))

\* error is the ValueError("Invalid IPv6 URL") or the ValueError of
\* _check_bracketed_host (no lexeme is an IP literal)
SplitResult(scheme, netloc, r2) ==
    [error  |-> "[" \in Range(netloc) \/ "]" \in Range(netloc),
     scheme |-> scheme,
     netloc |-> netloc,
     path   |-> PathOf(r2),
     tail   |-> QueryFragmentOf(r2)]

SplitAfterScheme(scheme, r1) == SplitResult(scheme, NetlocOf(r1), AfterNetloc(r1))

\* urlsplit(u, scheme=default)
UrlSplit(u, default) == SplitAfterScheme(SchemeOf(u, default), AfterScheme(u))

\* urlunsplit((scheme, netloc, path, query, fragment)); tail is "?query#fragment"
UrlUnsplit(scheme, netloc, path, tail) ==
    LET u1 == IF netloc # <<>> \/ (scheme # <<>> /\ scheme \in UsesNetloc
                                   /\ ~(Len(path) >= 1 /\ path[1] = "//"))
              THEN <<"//">> \o netloc
                   \o (IF path # <<>> /\ path[1] # "/" THEN <<"/">> \o path ELSE path)
              ELSE path
    IN  (IF scheme # <<>> THEN scheme \o <<":">> ELSE <<>>) \o u1 \o tail

\* path.split('/'): the segments, "" for an empty one
RECURSIVE SplitPath(_)
SplitPath(p) ==
    IF p = <<>> THEN <<"">>
    ELSE IF p[1] = "/" THEN <<"">> \o SplitPath(Tail(p))
    ELSE IF Len(p) = 1 THEN <<p[1]>>
    ELSE <<p[1]>> \o SplitPath(SubSeq(p, 3, Len(p)))

\* '/'.join(segments)
RECURSIVE JoinPath(_)
JoinPath(segs) ==
    LET tok(s) == IF s = "" THEN <<>> ELSE <<s>>
    IN  IF segs = <<>> THEN <<>>
        ELSE IF Len(segs) = 1 THEN tok(segs[1])
        ELSE tok(segs[1]) \o <<"/">> \o JoinPath(Tail(segs))

\* segments[1:-1] = filter(None, segments[1:-1])
FilterMiddle(segs) ==
    IF Len(segs) <= 2 THEN segs
    ELSE <<segs[1]>>
         \o SelectSeq(SubSeq(segs, 2, Len(segs) - 1), LAMBDA s : s # "")
         \o <<segs[Len(segs)]>>

\* urljoin: base_parts
BaseParts(parts) ==
    IF parts[Len(parts)] # "" THEN SubSeq(parts, 1, Len(parts) - 1) ELSE parts

\* urljoin: '/'.join(resolved_path) or '/'
ResolvedPath(bpath, path) ==
    LET joined == JoinPath(IF path[1] = "/"
                           THEN SplitPath(path)
                           ELSE FilterMiddle(BaseParts(SplitPath(bpath)) \o SplitPath(path)))
    IN  IF joined = <<>> THEN <<"/">> ELSE joined

\* urljoin, once base and url are parsed (b, r)
JoinSplit(url, b, r) ==
    IF b.error \/ r.error THEN [error |-> TRUE, url |-> <<>>]
    ELSE IF r.scheme # b.scheme \/ r.scheme \notin UsesRelative
         THEN [error |-> FALSE, url |-> url]
    ELSE IF r.netloc # <<>>
         THEN [error |-> FALSE, url |-> UrlUnsplit(r.scheme, r.netloc, r.path, r.tail)]
    ELSE IF r.path = <<>>
         THEN [error |-> FALSE,
               url |-> UrlUnsplit(r.scheme, b.netloc, b.path,
                                  IF r.tail = <<>> THEN b.tail ELSE r.tail)]
    ELSE [error |-> FALSE,
          url |-> UrlUnsplit(r.scheme, b.netloc, ResolvedPath(b.path, r.path), r.tail)]

JoinBase(url, b) == JoinSplit(url, b, UrlSplit(url, b.scheme))

\* urljoin(base, url): [error |-> a ValueError was raised, url |-> the result]
UrlJoin(base, url) ==
    IF base = <<>> THEN [error |-> FALSE, url |-> url]
    ELSE IF url = <<>> THEN [error |-> FALSE, url |-> base]
    ELSE JoinBase(url, UrlSplit(base, <<>>))

(***************************************************************************)
(* Utilities.                                                              *)
(***************************************************************************)
LOW_EFFORT_DOMAINS ==
    { <<"facebook.com">>, <<"www.facebook.com">>, <<"m.facebook.com">>,
      <<"instagram.com">>, <<"www.instagram.com">>, <<"yelp.com">>,
      <<"www.yelp.com">>, <<"linktr.ee">>, <<"www.linktr.ee">>, <<"goo.gl">>,
      <<"maps.app.goo.gl">> }

\* urlparse(url).netloc.lower(), "" when urlparse raises
domain_of(url) ==
    LET r == UrlSplit(url, <<>>)
    IN  IF r.error THEN <<>> ELSE Lower(r.netloc)

\* (is_lead, reason); the reason is the f-string's pieces
is_low_effort_or_missing_website(website_uri) ==
    IF IsNoneUrl(website_uri) \/ website_uri = <<>>
    THEN [is_lead |-> TRUE, reason |-> <<"missing_website">>]
    ELSE LET dom == domain_of(website_uri)
         IN  IF dom \in LOW_EFFORT_DOMAINS
             THEN [is_lead |-> TRUE, reason |-> <<"low_effort_domain:">> \o dom]
             ELSE [is_lead |-> FALSE,
                   reason |-> <<"has_website:">>
                              \o (IF dom = <<>> THEN <<"unknown">> ELSE dom)]

(***************************************************************************)
(* Email scraping helpers.                                                 *)
(***************************************************************************)
\* "" (the empty HTML text, also what fetch_html returns on any failure)
EmptyHtml == [emails |-> {}, hrefs |-> <<>>, other |-> FALSE]

\* Python's str order on two emails: a < b
StrLess(a, b) ==
    \E k \in 1..(Min(Len(a), Len(b)) + 1) :
        /\ \A j \in 1..(k-1) : a[j] = b[j]
        /\ \/ k > Len(a) /\ k <= Len(b)
           \/ k <= Len(a) /\ k <= Len(b) /\ a[k] < b[k]

\* (faulty variant) sorted(emails)[-1]
SortedLast(emails) ==
    CHOOSE e \in emails : \A f \in emails \ {e} : StrLess(f, e)

\* sorted(emails)[0]
SortedFirst(emails) ==
    CHOOSE e \in emails : \A f \in emails \ {e} : StrLess(e, f)

\* set(re.findall(EMAIL_REGEX, html)), set() for the empty text
extract_emails_from_html(h) ==
    IF h = EmptyHtml THEN {} ELSE h.emails

\* fetch_html(url, dry_run=...) given what requests.get does: resp.raised (any
\* exception), resp.status_code, resp.is_html ("text/html" in Content-Type),
\* resp.text
fetch_html(resp, dry_run) ==
    IF dry_run THEN EmptyHtml
    ELSE IF resp.raised THEN EmptyHtml
    ELSE IF resp.status_code # 200 THEN EmptyHtml
    ELSE IF ~resp.is_html THEN EmptyHtml
    ELSE resp.text

\* the words of the model that hold one of CONTACT_HINTS as a substring
CONTACT_HINTS ==
    {"contact", "contact-us", "get-in-touch", "about", "about-us", "impressum",
     "support", "contactlens.example"}

CommonPaths == <<"contact", "contact-us", "about", "about-us", "impressum", "support">>

CandidateCap == 6

\* href_lower.startswith(("mailto:", "tel:", "javascript:", "#"))
IsJunkLink(href) ==
    LET l == Lower(href)
    IN  \/ Len(l) >= 2 /\ l[1] \in {"mailto", "tel", "javascript"} /\ l[2] = ":"
        \/ Len(l) >= 1 /\ l[1] = "#"

\* any(hint in href_lower for hint in CONTACT_HINTS)
HasHint(href) == \E i \in 1..Len(href) : LowerTok(href[i]) \in CONTACT_HINTS

\* base_url.rstrip("/")
RECURSIVE RStripSlash(_)
RStripSlash(u) ==
    IF u # <<>> /\ u[Len(u)] \in {"/", "//"}
    THEN RStripSlash(SubSeq(u, 1, Len(u) - 1))
    ELSE u

\* the "seen" loop: first occurrences, in order
RECURSIVE DedupUrls(_, _)
DedupUrls(us, out) ==
    IF us = <<>> THEN out
    ELSE IF Head(us) \in Range(out) THEN DedupUrls(Tail(us), out)
    ELSE DedupUrls(Tail(us), Append(out, Head(us)))

\* the end of find_candidate_pages: dedup and cap, unless a urljoin raised
CandidateList(joined) ==
    IF \E i \in 1..Len(joined) : joined[i].error
    THEN [error |-> TRUE, pages |-> <<>>]
    ELSE [error |-> FALSE,
          pages |-> SubSeq(DedupUrls([i \in 1..Len(joined) |-> joined[i].url], <<>>), 1,
                           Min(CandidateCap,
                               Len(DedupUrls([i \in 1..Len(joined) |-> joined[i].url],
                                             <<>>))))]

\* the hrefs the first loop keeps
PickedLinks(hrefs) == SelectSeq(hrefs, LAMBDA href : ~IsJunkLink(href) /\ HasHint(href))

JoinAll(base, hrefs) == [i \in 1..Len(hrefs) |-> UrlJoin(base, hrefs[i])]

\* find_candidate_pages(base_url, html): [error |-> urljoin raised ValueError,
\* pages |-> the list returned]
find_candidate_pages(base_url, h) ==
    IF h = EmptyHtml THEN [error |-> FALSE, pages |-> <<>>]
    ELSE CandidateList(
             JoinAll(base_url, PickedLinks(h.hrefs))
             \o JoinAll(RStripSlash(base_url) \o <<"/">>,
                        [i \in 1..Len(CommonPaths) |-> <<CommonPaths[i]>>]))

(***************************************************************************)
(* run_pipeline helpers.                                                   *)
(***************************************************************************)
\* (faulty variant) "is not None" in place of the truth value
IsNotNone(s) == s # NoneStr

\* bool(s) of an optional string: neither None nor ""
Truthy(s) == s # NoneStr /\ s # ""

\* float(p.get("rating") or 0.0), int(p.get("userRatingCount") or 0)
NumOrZero(x) == IF x = NoneNum THEN 0 ELSE x

\* (faulty variant) the two thresholds joined by "and"
FailsBothThresholds(p, a) ==
    NumOrZero(p.rating) < a.min_rating /\ NumOrZero(p.userRatingCount) < a.min_reviews

\* rating < min_rating or count < min_reviews
FailsCoarseFilter(p, a) ==
    NumOrZero(p.rating) < a.min_rating \/ NumOrZero(p.userRatingCount) < a.min_reviews

\* (faulty variant) by_id[pid] = p without the "pid not in by_id" test: the last
\* occurrence is kept, at the place of the first
RECURSIVE DedupKeepLast(_, _)
DedupKeepLast(ps, acc) ==
    IF ps = <<>> THEN acc
    ELSE LET p == Head(ps)
             pid == p.id
         IN  IF ~Truthy(pid) THEN DedupKeepLast(Tail(ps), acc)
             ELSE IF \E k \in 1..Len(acc) : acc[k].pid = pid
             THEN DedupKeepLast(Tail(ps),
                     [k \in 1..Len(acc) |->
                         IF acc[k].pid = pid THEN [pid |-> pid, p |-> p] ELSE acc[k]])
             ELSE DedupKeepLast(Tail(ps), Append(acc, [pid |-> pid, p |-> p]))

\* the deduplication loop: by_id as its items() in insertion order
RECURSIVE Dedup(_, _)
Dedup(ps, acc) ==
    IF ps = <<>> THEN acc
    ELSE LET p == Head(ps)
             pid == p.id
         IN  IF Truthy(pid) /\ \A k \in 1..Len(acc) : acc[k].pid # pid
             THEN Dedup(Tail(ps), Append(acc, [pid |-> pid, p |-> p]))
             ELSE Dedup(Tail(ps), acc)

\* "1" in pid, for the identifiers of the model
HasDigitOne(pid) == pid \in {"DRY_PLACE_1", "DRY_RADIUS_1", "p1"}

FacebookExample == <<"https", ":", "//", "www.facebook.com", "/", "example">>

\* the dict built from a detail response that the code appends to leads
\* (name, phone, address and maps_url are copied from d like rating and are left out)
MakeLead(dd, pid, em, src, rsn) ==
    [rating       |-> dd.rating,
     reviews      |-> dd.userRatingCount,
     email        |-> em,
     email_source |-> src,
     website      |-> IF IsNoneUrl(dd.websiteUri) THEN <<>> ELSE dd.websiteUri,
     reason       |-> rsn,
     place_id     |-> IF dd.id = NoneStr THEN pid ELSE dd.id]

\* the synthetic detail payload of a dry run
DryDetail(pid, p) ==
    [id |-> pid,
     rating |-> NumOrZero(p.rating),
     userRatingCount |-> NumOrZero(p.userRatingCount),
     websiteUri |-> IF HasDigitOne(pid) THEN NoneUrl ELSE FacebookExample]

\* the synthetic search page of a dry run
DrySearchPlaces(mode) ==
    IF mode = "text"
    THEN << [id |-> "DRY_PLACE_1", rating |-> 46, userRatingCount |-> 128],
            [id |-> "DRY_PLACE_2", rating |-> 43, userRatingCount |-> 34] >>
    ELSE << [id |-> "DRY_RADIUS_1", rating |-> 47, userRatingCount |-> 210] >>

\* (faulty variant) the file is written in a finally block, with the leads so far
CsvAfterAbortPartial == [opened |-> TRUE, rows |-> leads]

\* what an uncaught exception leaves of the output file: main() opens it only
\* after run_pipeline has returned
CsvAfterAbort == csv

\* the locals a step does not touch
scrapeVars == <<html, cands, ci>>
searchVars == <<places, next_token, page_i, searchLog>>
loopVars == <<by_id, idx, d>>
resultVars == <<email, email_source, is_lead, reason, leads, leadOrigin>>

\* an uncaught exception e ends the run
Raise(e) ==
    /\ pc' = "aborted"
    /\ exc' = e
    /\ csv' = CsvAfterAbort

(***************************************************************************)
(* main(): the credential check (lines 560-564) and the choice of the      *)
(* search mode (run_pipeline, lines 426-429).                              *)
(***************************************************************************)
Main ==
    /\ pc = "main"
    /\ IF ~args.dry_run /\ ~args.has_key
       THEN Raise("SystemExit:api_key")
       ELSE /\ pc' = IF args.mode = "text" THEN "search" ELSE "geocode"
            /\ UNCHANGED <<exc, csv>>
    /\ UNCHANGED <<args, searchVars, loopVars, scrapeVars, resultVars, detailLog,
                   fetchLog>>

(***************************************************************************)
(* geocode_city_country: resp is what the geocoding request does           *)
(* (resp.raised: requests / raise_for_status raised).                      *)
(***************************************************************************)
Geocode(Responses) ==
    /\ pc = "geocode"
    /\ IF args.dry_run
       THEN pc' = "search" /\ UNCHANGED <<exc, csv>>
       ELSE \E resp \in Responses :
              IF resp.raised THEN Raise("RequestException:geocode")
              ELSE IF resp.status # "OK" \/ ~resp.has_results
                   THEN Raise("SystemExit:geocode")
              ELSE pc' = "search" /\ UNCHANGED <<exc, csv>>
    /\ UNCHANGED <<args, searchVars, loopVars, scrapeVars, resultVars, detailLog,
                   fetchLog>>

(***************************************************************************)
(* text_search / radius_search_via_text_bias: one iteration of the for     *)
(* loop.  The two functions differ in the request body (textQuery,         *)
(* locationBias) and in the synthetic page of a dry run.                   *)
(***************************************************************************)
SearchIter(Responses) ==
    /\ pc = "search"
    /\ page_i < args.max_pages
    /\ LET sent == IF Truthy(next_token) THEN next_token ELSE NoneStr
           dry == [raised |-> FALSE, places |-> DrySearchPlaces(args.mode),
                   nextPageToken |-> NoneStr]
       IN  \E resp \in (IF args.dry_run THEN {dry} ELSE Responses) :
             IF resp.raised
             THEN /\ Raise("RequestException:search")
                  /\ searchLog' = Append(searchLog,
                         [sent |-> sent, raised |-> TRUE, got |-> NoneStr])
                  /\ page_i' = page_i + 1
                  /\ UNCHANGED <<places, next_token>>
             ELSE /\ places' = places \o resp.places
                  /\ next_token' = resp.nextPageToken
                  /\ searchLog' = Append(searchLog,
                         [sent |-> sent, raised |-> FALSE, got |-> resp.nextPageToken])
                  /\ page_i' = page_i + 1
                  /\ pc' = IF Truthy(resp.nextPageToken) THEN "search" ELSE "dedup"
                  /\ UNCHANGED <<exc, csv>>
    /\ UNCHANGED <<args, loopVars, scrapeVars, resultVars, detailLog, fetchLog>>

\* range(max_pages) is exhausted: the function returns results
SearchExhausted ==
    /\ pc = "search"
    /\ page_i >= args.max_pages
    /\ pc' = "dedup"
    /\ UNCHANGED <<args, searchVars, loopVars, scrapeVars, resultVars, detailLog,
                   fetchLog, csv, exc>>

(***************************************************************************)
(* run_pipeline, step 2: deduplicate by place id.  The locals of the       *)
(* search function are gone.                                               *)
(***************************************************************************)
Deduplicate ==
    /\ pc = "dedup"
    /\ by_id' = Dedup(places, <<>>)
    /\ idx' = 1
    /\ next_token' = NoneStr
    /\ page_i' = 0
    /\ searchLog' = <<>>
    /\ pc' = "loop"
    /\ UNCHANGED <<args, places, d, scrapeVars, resultVars, detailLog, fetchLog, csv,
                   exc>>

(***************************************************************************)
(* run_pipeline, step 3: the for loop over by_id.items().  places is not   *)
(* read after the deduplication: the loop drops it.                        *)
(***************************************************************************)
loopSearchVars == <<next_token, page_i, searchLog>>

\* the coarse filter rejects the place: continue
CoarseSkip ==
    /\ pc = "loop"
    /\ idx <= Len(by_id)
    /\ FailsCoarseFilter(by_id[idx].p, args)
    /\ idx' = idx + 1
    /\ places' = <<>>
    /\ UNCHANGED <<pc, args, loopSearchVars, by_id, d, scrapeVars, resultVars,
                   detailLog, fetchLog, csv, exc>>

\* the place passes: places_get_details(pid); resp is what the request does
GetDetails(Responses) ==
    /\ pc = "loop"
    /\ idx <= Len(by_id)
    /\ ~FailsCoarseFilter(by_id[idx].p, args)
    /\ detailLog' = Append(detailLog, by_id[idx].pid)
    /\ fetchLog' = <<>>
    /\ IF args.dry_run
       THEN /\ d' = DryDetail(by_id[idx].pid, by_id[idx].p)
            /\ pc' = "scrape"
            /\ UNCHANGED <<exc, csv>>
       ELSE \E resp \in Responses :
              IF resp.raised
              THEN Raise("RequestException:details") /\ d' = d
              ELSE /\ d' = resp.data
                   /\ pc' = "scrape"
                   /\ UNCHANGED <<exc, csv>>
    /\ places' = <<>>
    /\ UNCHANGED <<args, loopSearchVars, by_id, idx, scrapeVars, resultVars>>

\* the loop is over: run_pipeline returns leads
LoopDone ==
    /\ pc = "loop"
    /\ idx > Len(by_id)
    /\ pc' = "returned"
    /\ places' = <<>>
    /\ UNCHANGED <<args, loopSearchVars, loopVars, scrapeVars, resultVars, detailLog,
                   fetchLog, csv, exc>>

(***************************************************************************)
(* extract_email_from_website, called with website or "".                  *)
(***************************************************************************)
\* requests.get raises (MissingSchema, InvalidSchema, InvalidURL) unless the
\* url is http(s) with a host: then the only outcome is the exception
RequestsAccepts(url) ==
    LET r == UrlSplit(url, <<>>)
    IN  ~r.error /\ r.scheme \in {<<"http">>, <<"https">>} /\ r.netloc # <<>>

RaisedResponse ==
    [raised |-> TRUE, status_code |-> 0, is_html |-> FALSE, text |-> EmptyHtml]

FetchOutcomes(url, Responses) ==
    IF RequestsAccepts(url) THEN Responses ELSE {RaisedResponse}

\* the function returns (email, email_source) to run_pipeline
ScrapeReturn(em, src) ==
    /\ email' = em
    /\ email_source' = src
    /\ pc' = "classify"
    /\ UNCHANGED <<exc, csv>>

\* the guard, and step 1: the homepage; then find_candidate_pages
ScrapeHome(Responses) ==
    /\ pc = "scrape"
    /\ LET website == IF IsNoneUrl(d.websiteUri) THEN <<>> ELSE d.websiteUri
       IN  IF website = <<>> \/ args.dry_run
           THEN ScrapeReturn(<<>>, <<>>) /\ UNCHANGED <<fetchLog, html, cands, ci>>
           ELSE \E resp \in FetchOutcomes(website, Responses) :
                  LET h == fetch_html(resp, args.dry_run)
                      emails == extract_emails_from_html(h)
                      found == find_candidate_pages(website, h)
                  IN  /\ fetchLog' = Append(fetchLog, [url |-> website, emails |-> emails])
                      /\ html' = h
                      /\ IF emails # {}
                         THEN /\ ScrapeReturn(SortedFirst(emails), <<"homepage">>)
                              /\ UNCHANGED <<cands, ci>>
                         ELSE IF found.error
                         THEN /\ Raise("ValueError:urljoin")
                              /\ UNCHANGED <<email, email_source, cands, ci>>
                         ELSE /\ cands' = found.pages
                              /\ ci' = 1
                              /\ pc' = "scrape_cand"
                              /\ UNCHANGED <<email, email_source, exc, csv>>
    /\ UNCHANGED <<args, searchVars, loopVars, is_lead, reason, leads, leadOrigin,
                   detailLog>>

\* step 2: one iteration of the loop over the candidate pages
ScrapeCand(Responses) ==
    /\ pc = "scrape_cand"
    /\ ci <= Len(cands)
    /\ \E resp \in FetchOutcomes(cands[ci], Responses) :
         LET page_html == fetch_html(resp, args.dry_run)
             emails == extract_emails_from_html(page_html)
         IN  /\ fetchLog' = Append(fetchLog, [url |-> cands[ci], emails |-> emails])
             /\ IF emails # {}
                THEN /\ ScrapeReturn(SortedFirst(emails), <<"page:">> \o cands[ci])
                     /\ UNCHANGED <<html, cands, ci>>
                ELSE /\ ci' = ci + 1
                     /\ UNCHANGED <<pc, html, cands, email, email_source, exc, csv>>
    /\ UNCHANGED <<args, searchVars, loopVars, is_lead, reason, leads, leadOrigin,
                   detailLog>>

\* no candidate page held an email: return "", ""
ScrapeNone ==
    /\ pc = "scrape_cand"
    /\ ci > Len(cands)
    /\ ScrapeReturn(<<>>, <<>>)
    /\ UNCHANGED <<args, searchVars, loopVars, scrapeVars, is_lead, reason, leads,
                   leadOrigin, detailLog, fetchLog>>

(***************************************************************************)
(* run_pipeline: classify, append the lead, next iteration.  d, email,     *)
(* email_source and what extract_email_from_website left are not read      *)
(* again before they are assigned.                                         *)
(***************************************************************************)
NoDetail == [id |-> NoneStr, rating |-> NoneNum, userRatingCount |-> NoneNum,
             websiteUri |-> NoneUrl]

Classify ==
    /\ pc = "classify"
    /\ LET r == is_low_effort_or_missing_website(d.websiteUri)
           pid == by_id[idx].pid
       IN  /\ is_lead' = r.is_lead
           /\ reason' = r.reason
           /\ leads' = IF r.is_lead
                       THEN Append(leads, MakeLead(d, pid, email, email_source, r.reason))
                       ELSE leads
           /\ leadOrigin' = IF r.is_lead THEN Append(leadOrigin, pid) ELSE leadOrigin
    /\ idx' = idx + 1
    /\ d' = NoDetail
    /\ email' = <<>>
    /\ email_source' = <<>>
    /\ fetchLog' = <<>>
    /\ html' = EmptyHtml
    /\ cands' = <<>>
    /\ ci' = 0
    /\ pc' = "loop"
    /\ UNCHANGED <<args, searchVars, by_id, detailLog, csv, exc>>

(***************************************************************************)
(* main(): the CSV is written from the list run_pipeline returned.         *)
(***************************************************************************)
WriteCsv ==
    /\ pc = "returned"
    /\ csv' = [opened |-> TRUE, rows |-> leads]
    /\ pc' = "done"
    /\ UNCHANGED <<args, searchVars, loopVars, scrapeVars, resultVars, detailLog,
                   fetchLog, exc>>

(***************************************************************************)
(* The environment of a whole run: the configurations, and what the        *)
(* geocoding, search, details and web servers may answer.                  *)
(***************************************************************************)
MaxResults == 3

SeqsUpTo(S, n) == UNION {[1..k -> S] : k \in 0..n}

FacebookPage == <<"https", ":", "//", "www.facebook.com", "/", "biz">>
ShopSite == <<"https", ":", "//", "shop.example">>

RunArgs ==
    [dry_run : BOOLEAN, has_key : BOOLEAN, mode : {"text", "radius"},
     min_rating : {42}, min_reviews : {20}, max_pages : {0, 1, 2}]

RunGeocodeResponses ==
    [raised : {TRUE}, status : {"OK"}, has_results : {FALSE}]
    \cup [raised : {FALSE}, status : {"OK", "ZERO_RESULTS"}, has_results : BOOLEAN]

RunPlaces ==
    { [id |-> "p1", rating |-> 50, userRatingCount |-> 30],
      [id |-> "p1", rating |-> 30, userRatingCount |-> 30],
      [id |-> "p2", rating |-> 50, userRatingCount |-> 30],
      [id |-> "p2", rating |-> 50, userRatingCount |-> 10],
      [id |-> "p2", rating |-> NoneNum, userRatingCount |-> NoneNum],
      [id |-> NoneStr, rating |-> 50, userRatingCount |-> 30],
      [id |-> "", rating |-> 50, userRatingCount |-> 30] }

RunSearchResponses ==
    {[raised |-> TRUE, places |-> <<>>, nextPageToken |-> NoneStr]}
    \cup [raised : {FALSE},
          places : SeqsUpTo(RunPlaces, MaxResults - Len(places)),
          nextPageToken : {NoneStr, "t1"}]

RunDetailResponses(pid) ==
    {[raised |-> TRUE, data |-> NoDetail]}
    \cup { [raised |-> FALSE,
            data |-> [id |-> i, rating |-> rc[1], userRatingCount |-> rc[2],
                      websiteUri |-> w]] :
           i \in {NoneStr, "p1", "p2"},
           rc \in {<<50, 30>>, <<30, 10>>, <<NoneNum, NoneNum>>},
           w \in {NoneUrl, <<>>, FacebookPage, ShopSite} }

RunPages ==
    { EmptyHtml,
      [emails |-> {<<2>>, <<1, 2>>}, hrefs |-> <<>>, other |-> TRUE],
      [emails |-> {}, hrefs |-> <<>>, other |-> TRUE],
      [emails |-> {},
       hrefs |-> << <<"/", "about-us">>,
                    <<"https", ":", "//", "other.example", "/", "contact">> >>,
       other |-> TRUE],
      [emails |-> {}, hrefs |-> << <<"//", "[", "contact">> >>, other |-> TRUE] }

RunFetchResponses ==
    {RaisedResponse}
    \cup [raised : {FALSE}, status_code : {200}, is_html : {TRUE}, text : RunPages]
    \cup [raised : {FALSE}, status_code : {404}, is_html : {TRUE},
          text : {[emails |-> {<<2>>}, hrefs |-> <<>>, other |-> TRUE]}]
    \cup [raised : {FALSE}, status_code : {200}, is_html : {FALSE},
          text : {[emails |-> {<<2>>}, hrefs |-> <<>>, other |-> TRUE]}]

(***************************************************************************)
(* The state before main() has done anything.                              *)
(***************************************************************************)
InitSearch ==
    /\ next_token = NoneStr
    /\ page_i = 0
    /\ searchLog = <<>>

InitLocals ==
    /\ html = EmptyHtml
    /\ cands = <<>>
    /\ ci = 0
    /\ email = <<>>
    /\ email_source = <<>>
    /\ is_lead = FALSE
    /\ reason = <<>>
    /\ leads = <<>>
    /\ leadOrigin = <<>>
    /\ detailLog = <<>>
    /\ fetchLog = <<>>
    /\ csv = [opened |-> FALSE, rows |-> <<>>]
    /\ exc = "none"

Init ==
    /\ pc = "main"
    /\ args \in RunArgs
    /\ places = <<>>
    /\ InitSearch
    /\ by_id = <<>>
    /\ idx = 0
    /\ d = NoDetail
    /\ InitLocals

Next ==
    \/ Main
    \/ Geocode(RunGeocodeResponses)
    \/ SearchIter(RunSearchResponses)
    \/ SearchExhausted
    \/ Deduplicate
    \/ CoarseSkip
    \/ GetDetails(RunDetailResponses(by_id[idx].pid))
    \/ LoopDone
    \/ ScrapeHome(RunFetchResponses)
    \/ ScrapeCand(RunFetchResponses)
    \/ ScrapeNone
    \/ Classify
    \/ WriteCsv

Spec == Init /\ [][Next]_vars

(***************************************************************************)
(* Properties of a whole run (Spec).                                       *)
(***************************************************************************)
\* the host component of a url: the netloc without "userinfo@" and ":port",
\* lower-cased (urlparse(url).hostname)
FindLast(s, S) ==
    IF \E i \in 1..Len(s) : s[i] \in S
    THEN CHOOSE i \in 1..Len(s) : s[i] \in S /\ \A j \in (i+1)..Len(s) : s[j] \notin S
    ELSE 0

HostPort(n) == SubSeq(n, FindLast(n, {"@"}) + 1, Len(n))

HostOfNetloc(hp) ==
    IF FindFirst(hp, {":"}) = 0 THEN hp ELSE SubSeq(hp, 1, FindFirst(hp, {":"}) - 1)

HostOf(url) == HostOfNetloc(HostPort(Lower(UrlSplit(url, <<>>).netloc)))

Returned == pc \in {"returned", "done"}

\* C1: after run_pipeline has completed, every Lead of the list has a website
\* that is empty or has a denylisted host, a rating field >= the minimum
\* rating and a reviews field >= the minimum review count.
C1_LeadsMeetThresholds ==
    Returned =>
        \A k \in 1..Len(leads) :
            /\ leads[k].website = <<>> \/ HostOf(leads[k].website) \in LOW_EFFORT_DOMAINS
            /\ leads[k].rating >= args.min_rating
            /\ leads[k].reviews >= args.min_reviews

\* the search result of a unique place is below a threshold
BelowThreshold(p) ==
    \/ p.rating = NoneNum \/ p.rating < args.min_rating
    \/ p.userRatingCount = NoneNum \/ p.userRatingCount < args.min_reviews

\* the identifiers of the unique places, among the first n, that pass both thresholds
RECURSIVE PassingIds(_)
PassingIds(items) ==
    IF items = <<>> THEN <<>>
    ELSE IF BelowThreshold(Head(items).p) THEN PassingIds(Tail(items))
    ELSE <<Head(items).pid>> \o PassingIds(Tail(items))

\* the unique places whose turn in the loop has come
Reached ==
    IF pc = "loop" THEN SubSeq(by_id, 1, idx - 1)
    ELSE IF pc \in {"scrape", "scrape_cand", "classify"} THEN SubSeq(by_id, 1, idx)
    ELSE by_id

\* C2: a unique place below a threshold causes no detail request and no lead;
\* every unique place that passes both causes exactly one detail request, keyed
\* by its identifier; in a completed run the number of detail requests is the
\* number of unique places passing the coarse filter.
C2_DetailRequestsFollowCoarseFilter ==
    /\ pc \in {"loop", "scrape", "scrape_cand", "classify", "returned", "done"}
          => detailLog = PassingIds(Reached)
    /\ \A k \in 1..Len(detailLog) :
          \E j \in 1..Len(by_id) :
              by_id[j].pid = detailLog[k] /\ ~BelowThreshold(by_id[j].p)
    /\ \A k \in 1..Len(leadOrigin) : leadOrigin[k] \in Range(detailLog)
    /\ Returned =>
          Len(detailLog) = Cardinality({j \in 1..Len(by_id) : ~BelowThreshold(by_id[j].p)})

C2_Witness ==
    /\ pc = "done"
    /\ Len(by_id) = 2
    /\ Len(detailLog) = 1
    /\ Len(leads) = 1
    /\ BelowThreshold(by_id[1].p)

\* C8 (as claimed): no failure of the scraping of a website ends the run; the
\* only exceptions that end a run are the fatal ones of the configuration,
\* the geocoding, the search and the detail requests.
C8_ScrapingNeverAborts ==
    pc = "aborted" =>
        exc \in {"SystemExit:api_key", "SystemExit:geocode", "RequestException:geocode",
                 "RequestException:search", "RequestException:details"}

\* C9: a run that ends with a fatal error never opened the output file; the
\* file is written only after run_pipeline has returned, with the list it returned.
C9_NoCsvUnlessReturned ==
    /\ pc = "aborted" => ~csv.opened
    /\ csv.opened => pc = "done" /\ csv.rows = leads
    /\ pc = "done" => csv.opened

C9_Witness ==
    /\ pc = "aborted"
    /\ exc = "RequestException:details"
    /\ Len(leads) >= 1
    /\ ~csv.opened

\* C10 (as claimed): the website of a place is fetched only if the place is
\* classified as a lead.
C10_FetchOnlyForLeads ==
    fetchLog # <<>> => is_low_effort_or_missing_website(d.websiteUri).is_lead

(***************************************************************************)
(* The deduplication alone (SpecDedup): run_pipeline at step 2, with any   *)
(* result sequence the search may have returned.                           *)
(***************************************************************************)
MaxPlaces == 4

LiveArgs == [dry_run |-> FALSE, has_key |-> TRUE, mode |-> "text", min_rating |-> 42,
             min_reviews |-> 20, max_pages |-> 2]

DedupPlaces ==
    [id : {NoneStr, "", "p1", "p2", "p3"}, rating : {30, 50}, userRatingCount : {30}]

InitDedup ==
    /\ pc = "dedup"
    /\ args = LiveArgs
    /\ places \in SeqsUpTo(DedupPlaces, MaxPlaces)
    /\ InitSearch
    /\ by_id = <<>>
    /\ idx = 0
    /\ d = NoDetail
    /\ InitLocals

SpecDedup == InitDedup /\ [][Deduplicate]_vars

\* the index in places of the earliest result carrying pid
FirstIndex(pid) ==
    CHOOSE i \in 1..Len(places) :
        places[i].id = pid /\ \A j \in 1..(i-1) : places[j].id # pid

\* the deduplication has just been done (places is still the result sequence)
JustDeduplicated == pc = "loop" /\ idx = 1

\* C3: the deduplicated mapping has exactly one entry per distinct non-empty
\* identifier of the result sequence, bound to the earliest result carrying it,
\* in first-discovery order; results with a missing or empty identifier give
\* no entry.
C3_DedupKeepsFirstOccurrence ==
    JustDeduplicated =>
        /\ \A j, k \in 1..Len(by_id) : j # k => by_id[j].pid # by_id[k].pid
        /\ {by_id[k].pid : k \in 1..Len(by_id)}
              = {places[i].id : i \in 1..Len(places)} \ {NoneStr, ""}
        /\ \A k \in 1..Len(by_id) : by_id[k].p = places[FirstIndex(by_id[k].pid)]
        /\ \A j, k \in 1..Len(by_id) :
              j < k => FirstIndex(by_id[j].pid) < FirstIndex(by_id[k].pid)

C3_Witness ==
    /\ JustDeduplicated
    /\ Len(places) = 4
    /\ Len(by_id) = 2
    /\ \E i, j \in 1..Len(places) :
          i < j /\ places[i].id = places[j].id /\ places[i] # places[j]
                /\ places[i].id = by_id[2].pid
    /\ \E i \in 1..Len(places) : places[i].id \in {NoneStr, ""}

(***************************************************************************)
(* The search alone (SpecSearch): text_search / radius_search_via_text_bias *)
(* with any page bound and any answers.                                    *)
(***************************************************************************)
MaxPages == 3

SearchArgs ==
    [dry_run : BOOLEAN, has_key : {TRUE}, mode : {"text", "radius"},
     min_rating : {42}, min_reviews : {20}, max_pages : 0..MaxPages]

PageResponses ==
    {[raised |-> TRUE, places |-> <<>>, nextPageToken |-> NoneStr]}
    \cup [raised : {FALSE},
          places : {<<>>, <<[id |-> "p1", rating |-> 50, userRatingCount |-> 30]>>},
          nextPageToken : {NoneStr, "", "t1", "t2"}]

InitSearchOnly ==
    /\ pc = "search"
    /\ args \in SearchArgs
    /\ places = <<>>
    /\ InitSearch
    /\ by_id = <<>>
    /\ idx = 0
    /\ d = NoDetail
    /\ InitLocals

NextSearch ==
    \/ SearchIter(PageResponses)
    \/ SearchExhausted

SpecSearch == InitSearchOnly /\ [][NextSearch]_vars

\* a response that carries no continuation token
NoToken(t) == t = NoneStr \/ t = ""

LastAnswer == searchLog[Len(searchLog)]

\* C4: pages are requested one after another, each request after the first
\* carrying the continuation token of the previous response; fetching stops at
\* the first response without a token or at the page bound, so at most
\* max_pages pages are fetched; a first response without a token means exactly
\* one page, whatever the bound.
C4_PaginationFollowsTokens ==
    pc \in {"search", "dedup", "aborted"} =>
        /\ Len(searchLog) <= args.max_pages \/ searchLog = <<>>
        /\ searchLog # <<>> => searchLog[1].sent = NoneStr
        /\ \A k \in 2..Len(searchLog) :
              /\ ~searchLog[k-1].raised
              /\ ~NoToken(searchLog[k-1].got)
              /\ searchLog[k].sent = searchLog[k-1].got
        /\ (pc = "search" /\ searchLog # <<>>)
              => ~LastAnswer.raised /\ ~NoToken(LastAnswer.got)
        /\ (pc = "dedup" /\ searchLog # <<>>)
              => NoToken(LastAnswer.got) \/ Len(searchLog) = args.max_pages
        /\ (pc = "dedup" /\ searchLog = <<>>) => args.max_pages = 0
        /\ (pc = "dedup" /\ searchLog # <<>> /\ NoToken(searchLog[1].got))
              => Len(searchLog) = 1

C4_Witness ==
    /\ pc = "dedup"
    /\ args.max_pages = 2
    /\ Len(searchLog) = 2
    /\ searchLog[1].got = "t1"
    /\ searchLog[2].sent = "t1"
    /\ searchLog[2].got = "t2"

(***************************************************************************)
(* The classification alone (SpecClassify): run_pipeline at line 492 with  *)
(* any websiteUri the details may carry.                                   *)
(***************************************************************************)
ClassifyHosts ==
    {"facebook.com", "WWW.Facebook.COM", "m.facebook.com", "www.yelp.com", "Yelp.com",
     "shop.example"}

\* the authority forms of RFC 3986: host, host:port, userinfo@host, and a
\* bracket that urlparse rejects
Authorities ==
    UNION {{<<h>>, <<h, ":", "443">>, <<"User", "@", h>>, <<"[", h>>} : h \in ClassifyHosts}

ClassifyWebsites ==
    {NoneUrl, <<>>}
    \cup {<<h>> \o p : h \in ClassifyHosts, p \in {<<>>, <<"/", "page">>}}
    \cup {<<sch, ":", "//">> \o a \o p :
            sch \in {"https", "http", "HTTPS"}, a \in Authorities,
            p \in {<<>>, <<"/", "page">>}}

OnePlace == [id |-> "p1", rating |-> 50, userRatingCount |-> 30]

InitClassify ==
    /\ pc = "classify"
    /\ args = LiveArgs
    /\ places = <<>>
    /\ InitSearch
    /\ by_id = <<[pid |-> "p1", p |-> OnePlace]>>
    /\ idx = 1
    /\ d \in [id : {"p1"}, rating : {50}, userRatingCount : {30},
              websiteUri : ClassifyWebsites]
    /\ InitLocals

SpecClassify == InitClassify /\ [][Classify]_vars

\* C5: a missing or empty website is a lead with reason missing_website; a
\* website whose host component, compared case-insensitively, is in the
\* low-effort denylist is a lead with reason low_effort_domain:<domain>; any
\* other website is not a lead and the reason carries the domain.
C5_ClassifiesByHost ==
    [][pc = "classify" =>
        LET w == d.websiteUri
            missing == IsNoneUrl(w) \/ w = <<>>
        IN  /\ missing => is_lead' /\ reason' = <<"missing_website">>
            /\ (~missing /\ HostOf(w) \in LOW_EFFORT_DOMAINS)
                  => is_lead' /\ reason' = <<"low_effort_domain:">> \o domain_of(w)
            /\ (~missing /\ HostOf(w) \notin LOW_EFFORT_DOMAINS)
                  => ~is_lead' /\ reason'[1] = "has_website:"]_vars

(***************************************************************************)
(* The scraper alone (SpecScrape): extract_email_from_website with any     *)
(* website, any homepage and any answers of the candidate pages.           *)
(***************************************************************************)
MaxLinks == 2

ScrapeWebsites ==
    { NoneUrl, <<>>, ShopSite, FacebookPage,
      <<"https", ":", "//", "shop.example", "/">>,
      <<"http", ":", "//", "shop.example", "/", "en", "/", "home">>,
      <<"shop.example">> }

ScrapeEmails == {<<1>>, <<1, 2>>, <<2>>, <<2, 1>>}

ScrapeHrefs ==
    { <<"/", "about-us">>,
      <<"Contact">>,
      <<"mailto", ":", "contact">>,
      <<"#", "contact">>,
      <<"/", "pricing">>,
      <<"https", ":", "//", "other.example", "/", "contact">>,
      <<"https", ":", "//", "contactlens.example", "/", "pricing">>,
      <<"//", "[", "contact">> }

EmailPages == {[emails |-> E, hrefs |-> <<>>, other |-> TRUE] : E \in SUBSET ScrapeEmails \ {{}}}

LinkPages ==
    {[emails |-> {}, hrefs |-> hs, other |-> TRUE] : hs \in SeqsUpTo(ScrapeHrefs, MaxLinks)}

RefusedResponses ==
    {RaisedResponse}
    \cup [raised : {FALSE}, status_code : {404}, is_html : {TRUE},
          text : {[emails |-> {<<2>>}, hrefs |-> <<>>, other |-> TRUE]}]
    \cup [raised : {FALSE}, status_code : {200}, is_html : {FALSE},
          text : {[emails |-> {<<2>>}, hrefs |-> <<>>, other |-> TRUE]}]

HomeResponses ==
    RefusedResponses
    \cup [raised : {FALSE}, status_code : {200}, is_html : {TRUE},
          text : {EmptyHtml} \cup EmailPages \cup LinkPages
                 \cup {[emails |-> {<<2>>, <<1, 2>>}, hrefs |-> << <<"/", "about-us">> >>,
                        other |-> TRUE]}]

CandResponses ==
    RefusedResponses
    \cup [raised : {FALSE}, status_code : {200}, is_html : {TRUE},
          text : {EmptyHtml, [emails |-> {}, hrefs |-> <<>>, other |-> TRUE]}
                 \cup EmailPages]

InitScrapeOnly ==
    /\ pc = "scrape"
    /\ args \in [dry_run : BOOLEAN, has_key : {TRUE}, mode : {"text"}, min_rating : {42},
                 min_reviews : {20}, max_pages : {2}]
    /\ places = <<>>
    /\ InitSearch
    /\ by_id = <<[pid |-> "p1", p |-> OnePlace]>>
    /\ idx = 1
    /\ d \in [id : {"p1"}, rating : {50}, userRatingCount : {30},
              websiteUri : ScrapeWebsites]
    /\ InitLocals

NextScrape ==
    \/ ScrapeHome(HomeResponses)
    \/ ScrapeCand(CandResponses)
    \/ ScrapeNone

SpecScrape == InitScrapeOnly /\ [][NextScrape]_vars

\* extract_email_from_website is past its guard in a live run
LiveScrape ==
    /\ ~args.dry_run
    /\ ~IsNoneUrl(d.websiteUri)
    /\ d.websiteUri # <<>>
    /\ pc \in {"scrape_cand", "classify"}

\* e is the lexicographically smallest member of E
IsSmallest(e, E) == e \in E /\ \A f \in E : ~StrLess(f, e)

\* C6: in a live run, a homepage with an email gives its lexicographically
\* smallest email with provenance "homepage" and no secondary fetch; otherwise
\* the candidate pages are fetched strictly in list order up to the first one
\* with an email, whose smallest email is returned with provenance
\* "page:<url>"; if no candidate has an email the result is empty.
C6_HomepageThenCandidatesInOrder ==
    LiveScrape =>
        LET n == Len(fetchLog)
            L == find_candidate_pages(d.websiteUri, html).pages
        IN  /\ n >= 1
            /\ fetchLog[1].url = d.websiteUri
            /\ fetchLog[1].emails = extract_emails_from_html(html)
            /\ fetchLog[1].emails # {} =>
                  /\ pc = "classify"
                  /\ n = 1
                  /\ IsSmallest(email, fetchLog[1].emails)
                  /\ email_source = <<"homepage">>
            /\ fetchLog[1].emails = {} =>
                  /\ n - 1 <= Len(L)
                  /\ \A k \in 2..n : fetchLog[k].url = L[k-1]
                  /\ \A k \in 2..(n-1) : fetchLog[k].emails = {}
                  /\ pc = "scrape_cand" => fetchLog[n].emails = {}
                  /\ pc = "classify" =>
                        IF fetchLog[n].emails # {}
                        THEN /\ IsSmallest(email, fetchLog[n].emails)
                             /\ email_source = <<"page:">> \o L[n-1]
                        ELSE /\ n - 1 = Len(L)
                             /\ email = <<>>
                             /\ email_source = <<>>

C6_Witness ==
    /\ LiveScrape
    /\ pc = "classify"
    /\ Len(fetchLog) = 4
    /\ fetchLog[4].emails = {<<2>>, <<1, 2>>, <<2, 1>>}
    /\ email = <<1, 2>>
    /\ email_source[1] = "page:"
    /\ html.hrefs # <<>>

\* the two URLs name the same site
SameSite(base, url) == HostOf(url) = HostOf(base)

\* the candidate list as the claim describes it
ClaimedCandidates(base, h) ==
    LET picked == JoinAll(base, PickedLinks(h.hrefs))
        links == SelectSeq([i \in 1..Len(picked) |-> picked[i].url],
                           LAMBDA u : SameSite(base, u))
        conventional == JoinAll(RStripSlash(base) \o <<"/">>,
                                [i \in 1..Len(CommonPaths) |-> <<CommonPaths[i]>>])
        all == DedupUrls(links \o [i \in 1..Len(conventional) |-> conventional[i].url],
                         <<>>)
    IN  SubSeq(all, 1, Min(6, Len(all)))

\* C7: when the homepage yields no email, the candidate list for any homepage
\* HTML, the empty one included, is the same-site keyword links in document
\* order, then the six conventional paths, deduplicated in first-seen order
\* and cut to 6 URLs.
C7_CandidateListAsDescribed ==
    (pc = "scrape_cand" /\ ~args.dry_run)
        => cands = ClaimedCandidates(d.websiteUri, html)

\* C11: in the returned lead list no two Leads carry the same place_id, and
\* each Lead's place_id is the deduplicated identifier of the place it was
\* created for, whatever id the detail response carries.
C11_LeadPlaceIdsUnique ==
    Returned =>
        /\ \A i, j \in 1..Len(leads) : i # j => leads[i].place_id # leads[j].place_id
        /\ \A i \in 1..Len(leads) : leads[i].place_id = leadOrigin[i]

====
